---- MODULE Spec2Model ----
(***************************************************************************)
(* A model of shell-calc (src/calc.c): the recursive tokenizer/evaluator   *)
(* evaluate(), the one-shot and interactive front-ends of main(), and the  *)
(* line editor with its expression history.                                *)
(*                                                                         *)
(* C strings are sequences of one-character strings; a char pointer into a *)
(* string is modelled by its 0-based offset, so *ptr is CharAt(expr, ptr)  *)
(* and the terminating NUL is what is read at offset Len(expr).            *)
(*                                                                         *)
(* A double is modelled by a value <<kind, x, y>>:                         *)
(*   <<"int", n, 0>>     an integer that is held exactly                   *)
(*   <<"frac", n, d>>    the fraction n/d in lowest terms, d > 1           *)
(*   <<"huge", s, 0>>    a literal whose magnitude exceeds ValueCap        *)
(*   <<"pi",0,0>>, <<"e",0,0>>           the two named constants           *)
(*   <<f, v, 0>>         the libm call f(v), f in sin, cos, sqrt           *)
(*   <<op, v1, v2>>      an arithmetic result that is not an exact integer *)
(*                       of magnitude at most ValueCap                     *)
(* Arithmetic on exact integers is carried out; every other result is kept *)
(* as the application that produced it, so two values are equal only if    *)
(* the same operations were applied to the same operands in the same order.*)
(***************************************************************************)
EXTENDS Integers, Sequences, FiniteSets, TLC

VARIABLES
    stack,       \* evaluate() activation records, innermost last
    errorFlag,   \* bool errorFlag (calc.c:32)
    result,      \* value returned by the last evaluate() call that returned
    diag,        \* what evaluate() printed for the current top-level call
    proc,        \* "running", "aborted" (abort()), "undefined" (C undefined behaviour), "exited"
    call,        \* the arguments of the current/last top-level evaluate() call
    mpc,         \* position of main()
    mode,        \* "none", "oneshot" or "interactive"
    expr,        \* main's expr buffer as handed to evaluate()
    outcomes,    \* per evaluated expression, what main() printed, oldest first
    exitStatus,  \* value main() returned ("0", "-1"), or "none"
    lines,       \* number of input lines read so far in interactive mode
    ed,          \* state of the keystroke-level line editor
    gen          \* state of generateExpressions()

vars == <<stack, errorFlag, result, diag, proc, call, mpc, mode, expr,
          outcomes, exitStatus, lines, ed, gen>>

evalVars == <<stack, errorFlag, result, diag, proc, call>>
mainVars == <<mpc, mode, expr, outcomes, exitStatus, lines>>

-----------------------------------------------------------------------------
(* Characters and strings *)

NUL == "NUL"

CharAt(s, off) == IF off >= 0 /\ off < Len(s) THEN s[off + 1] ELSE NUL

strlen(s) == Len(s)

Digits == {"0", "1", "2", "3", "4", "5", "6", "7", "8", "9"}

\* isNumeric without the '-' among its characters
isNumericNoMinus(c) == c \in Digits \cup {"x", "X", "."}

isNumeric(c) == c \in Digits \cup {"x", "X", "-", "."}

isOper(c) == c \in {"+", "-", "*", "/", "^", "%"}

isAlpha(c) ==
    c \in {"a", "b", "c", "d", "e", "f", "g", "h", "i", "j", "k", "l", "m",
           "n", "o", "p", "q", "r", "s", "t", "u", "v", "w", "x", "y", "z"}

Abs(n) == IF n < 0 THEN -n ELSE n

Min(a, b) == IF a <= b THEN a ELSE b

Max(a, b) == IF a >= b THEN a ELSE b

-----------------------------------------------------------------------------
(* Values *)

\* Largest magnitude of an integer the model computes with exactly.
ValueCap == 1000000

Num(n) == <<"int", n, 0>>
IsInt(v) == v[1] = "int"
Zero == Num(0)
Huge(sign) == <<"huge", sign, 0>>

\* x * y, or Over when the magnitude would pass ValueCap
Over == ValueCap + 1
SatMul(x, y) ==
    IF x = 0 \/ y = 0 THEN 0
    ELSE IF Abs(x) > ValueCap \/ Abs(y) > ValueCap THEN Over
    ELSE IF Abs(x) > ValueCap \div Abs(y) THEN Over
    ELSE x * y

RECURSIVE SatPow(_, _)
SatPow(a, n) ==
    IF n = 0 THEN 1
    ELSE IF a = 0 THEN 0
    ELSE IF a = 1 THEN 1
    ELSE IF a = -1 THEN (IF n % 2 = 0 THEN 1 ELSE -1)
    ELSE IF n > 32 THEN Over
    ELSE SatMul(SatPow(a, n - 1), a)

RECURSIVE Gcd(_, _)
Gcd(a, b) == IF b = 0 THEN a ELSE Gcd(b, a % b)

\* the double n/d (d > 0), n and d within ValueCap
Ratio(n, d) ==
    LET g == Gcd(Abs(n), d)
        nn == n \div g
        dd == d \div g
    IN  IF n = 0 THEN Zero
        ELSE IF dd = 1 THEN Num(nn)
        ELSE <<"frac", nn, dd>>

\* r = t1 oper t2 as computed at calc.c:780, 801-808, 829-833
ApplyOp(oper, t1, t2) ==
    LET a == t1[2]
        b == t2[2]
        sym == <<oper, t1, t2>>
    IN  IF ~(IsInt(t1) /\ IsInt(t2)) THEN sym
        ELSE CASE oper = "+" -> IF Abs(a + b) <= ValueCap THEN Num(a + b) ELSE sym
               [] oper = "-" -> IF Abs(a - b) <= ValueCap THEN Num(a - b) ELSE sym
               [] oper = "*" -> IF SatMul(a, b) # Over THEN Num(a * b) ELSE sym
               [] oper = "/" -> IF b # 0 /\ Abs(a) % Abs(b) = 0
                                THEN Num((IF (a < 0) = (b < 0) THEN 1 ELSE -1)
                                         * (Abs(a) \div Abs(b)))
                                ELSE sym
               [] oper = "%" -> IF b # 0
                                THEN Num((IF a < 0 THEN -1 ELSE 1) * (Abs(a) % Abs(b)))
                                ELSE sym
               [] oper = "^" -> IF b >= 0 /\ SatPow(a, b) # Over
                                THEN Num(SatPow(a, b))
                                ELSE sym
               [] OTHER -> sym

-----------------------------------------------------------------------------
(* libc conversions *)

DigitVal(c) ==
    CASE c = "0" -> 0 [] c = "1" -> 1 [] c = "2" -> 2 [] c = "3" -> 3
      [] c = "4" -> 4 [] c = "5" -> 5 [] c = "6" -> 6 [] c = "7" -> 7
      [] c = "8" -> 8 [] c = "9" -> 9
      [] c \in {"a", "A"} -> 10 [] c \in {"b", "B"} -> 11
      [] c \in {"c", "C"} -> 12 [] c \in {"d", "D"} -> 13
      [] c \in {"e", "E"} -> 14 [] c \in {"f", "F"} -> 15
      [] OTHER -> 99

IsDigitIn(c, base) == DigitVal(c) < base

\* offset of the first character from p on that is no base-`base` digit
DigitsEnd(s, p, base) ==
    CHOOSE q \in p .. Len(s) :
        /\ ~IsDigitIn(CharAt(s, q), base)
        /\ \A r \in p .. (q - 1) : IsDigitIn(CharAt(s, r), base)

\* Reads a maximal run of base-`base` digits of s from offset p on top of the
\* value acc: the value read (Over once it passes ValueCap), the number of
\* digits and the offset after the run.
RECURSIVE ReadDigits(_, _, _, _, _)
ReadDigits(s, p, base, acc, cnt) ==
    IF ~IsDigitIn(CharAt(s, p), base) THEN [val |-> acc, cnt |-> cnt, end |-> p]
    ELSE IF acc = Over
    THEN [val |-> Over, cnt |-> cnt + (DigitsEnd(s, p, base) - p),
          end |-> DigitsEnd(s, p, base)]
    ELSE ReadDigits(s, p + 1, base,
                    IF SatMul(acc, base) = Over
                       \/ SatMul(acc, base) + DigitVal(CharAt(s, p)) > ValueCap
                    THEN Over ELSE SatMul(acc, base) + DigitVal(CharAt(s, p)),
                    cnt + 1)

\* strtoll(s + off, &end, 0), the result widened to double
strtoll(s, off) ==
    LET c0 == CharAt(s, off)
        neg == c0 = "-"
        p1 == IF c0 \in {"-", "+"} THEN off + 1 ELSE off
        hex == CharAt(s, p1) = "0" /\ CharAt(s, p1 + 1) \in {"x", "X"}
               /\ IsDigitIn(CharAt(s, p1 + 2), 16)
        base == IF hex THEN 16 ELSE IF CharAt(s, p1) = "0" THEN 8 ELSE 10
        r == ReadDigits(s, IF hex THEN p1 + 2 ELSE p1, base, 0, 0)
    IN  IF r.cnt = 0 THEN [val |-> Zero, end |-> off]
        ELSE IF r.val = Over THEN [val |-> Huge(IF neg THEN -1 ELSE 1), end |-> r.end]
        ELSE [val |-> Num(IF neg THEN -r.val ELSE r.val), end |-> r.end]

\* strtod(s + off, &end): an optional sign, a decimal or hexadecimal mantissa
\* with an optional point, and an optional exponent (e/E for decimal, p/P for
\* hexadecimal).  The sign and the 0x prefix:
strtodPrefix(s, off) ==
    LET p1 == IF CharAt(s, off) \in {"-", "+"} THEN off + 1 ELSE off
    IN  [neg |-> CharAt(s, off) = "-",
         p1 |-> p1,
         hex |-> CharAt(s, p1) = "0" /\ CharAt(s, p1 + 1) \in {"x", "X"}
                 /\ (IsDigitIn(CharAt(s, p1 + 2), 16)
                     \/ (CharAt(s, p1 + 2) = "." /\ IsDigitIn(CharAt(s, p1 + 3), 16)))]

\* the digits after the point, read on top of the integer part ip
strtodFraction(s, ip, base) ==
    LET fp == ReadDigits(s, ip.end + 1, base, ip.val, 0)
    IN  IF CharAt(s, ip.end) = "."
        THEN [val |-> fp.val, icnt |-> ip.cnt, fcnt |-> fp.cnt, end |-> fp.end]
        ELSE [val |-> ip.val, icnt |-> ip.cnt, fcnt |-> 0, end |-> ip.end]

\* the exponent that follows the mantissa, if there is one
strtodExponent(s, mantEnd, hex) ==
    LET signed == CharAt(s, mantEnd + 1) \in {"-", "+"}
        e2 == IF signed THEN mantEnd + 2 ELSE mantEnd + 1
        ex == ReadDigits(s, e2, 10, 0, 0)
    IN  IF CharAt(s, mantEnd) \in (IF hex THEN {"p", "P"} ELSE {"e", "E"})
           /\ IsDigitIn(CharAt(s, e2), 10)
        THEN [has |-> TRUE, neg |-> CharAt(s, mantEnd + 1) = "-", val |-> ex.val,
              end |-> ex.end]
        ELSE [has |-> FALSE, neg |-> FALSE, val |-> 0, end |-> mantEnd]

\* the double with mantissa digits m (m.fcnt of them after the point) and
\* exponent x
strtodScale(sgn, base, m, x) ==
    LET scale == SatPow(base, m.fcnt)
        epow == IF x.val = Over THEN Over ELSE SatPow(IF base = 16 THEN 2 ELSE 10, x.val)
        num == IF x.has /\ ~x.neg THEN SatMul(m.val, epow) ELSE m.val
        den == IF x.has /\ x.neg THEN SatMul(scale, epow) ELSE scale
    IN  IF m.val = Over \/ Abs(num) > ValueCap \/ den > ValueCap THEN Huge(sgn)
        ELSE Ratio(sgn * num, den)

strtodTail(s, off, pre, m, x) ==
    IF m.icnt + m.fcnt = 0 THEN [val |-> Zero, end |-> off]
    ELSE [val |-> strtodScale(IF pre.neg THEN -1 ELSE 1, IF pre.hex THEN 16 ELSE 10, m, x),
          end |-> x.end]

strtodMantissa(s, off, pre, m) == strtodTail(s, off, pre, m, strtodExponent(s, m.end, pre.hex))

strtodParts(s, off, pre) ==
    strtodMantissa(s, off, pre,
        strtodFraction(s, ReadDigits(s, IF pre.hex THEN pre.p1 + 2 ELSE pre.p1,
                                     IF pre.hex THEN 16 ELSE 10, 0, 0),
                       IF pre.hex THEN 16 ELSE 10))

strtod(s, off) == strtodParts(s, off, strtodPrefix(s, off))

-----------------------------------------------------------------------------
(* Constant and function tables *)

PI == <<"pi", 0, 0>>
E == <<"e", 0, 0>>

getConst(varStr) ==
    IF varStr = <<"p", "i">> THEN PI
    ELSE IF varStr = <<"e">> THEN E
    ELSE Zero

\* the value returned and whether errorFlag was set
doFunc(funcStr, arg) ==
    IF funcStr = <<"s", "i", "n">> THEN [ret |-> <<"sin", arg, 0>>, err |-> FALSE]
    ELSE IF funcStr = <<"c", "o", "s">> THEN [ret |-> <<"cos", arg, 0>>, err |-> FALSE]
    ELSE IF funcStr = <<"s", "q", "r", "t">> THEN [ret |-> <<"sqrt", arg, 0>>, err |-> FALSE]
    ELSE [ret |-> Zero, err |-> TRUE]

-----------------------------------------------------------------------------
(* evaluate(): activation records *)

TokenCap == 50          \* char operators[50]; double tokens[50];
RecursionLimit == 1000  \* if(depth > 1000)
LoopLimit == 10000      \* if(loopCount > 10000)
NameCap == 256          \* char vfStr[256];
ArgCap == 1024          \* char funcArg[1024];
SubCap == 4096          \* char subExpr[4096];

NoValue == <<"none", 0, 0>>

Slots == 0 .. (TokenCap - 1)

\* the locals of a call evaluate(e, d) before its first statement
NewFrame(e, d) ==
    [expr |-> e, depth |-> d, pc |-> "entry", ptr |-> 0,
     tokens |-> [k \in Slots |-> Zero], operators |-> [k \in Slots |-> NUL],
     numTokens |-> 0, numTokensAtStart |-> 0, loopCount |-> 0,
     vfStr |-> <<>>, evalPhase |-> 0, i |-> 0]

Top == stack[Len(stack)]
exprEnd(f) == strlen(f.expr)

\* Outcomes of a stretch of evaluate()'s code
Fail(kind) == [k |-> "fail", err |-> kind]
Undefined(kind) == [k |-> "undefined", err |-> kind]
Abort(kind) == [k |-> "abort", err |-> kind]
Next1(f) == [k |-> "next", f |-> f]
CallSub(f, arg) == [k |-> "call", f |-> f, arg |-> arg]
Return(v) == [k |-> "return", val |-> v]

\* tokens[numTokens++] = v
PutToken(f, v) ==
    [f EXCEPT !.tokens[f.numTokens] = v, !.numTokens = f.numTokens + 1]

-----------------------------------------------------------------------------
(* evaluate(): the tokenizing pass, calc.c:504-723 *)

Minimum(S) == CHOOSE x \in S : \A y \in S : x <= y

\* offset after the maximal run of lowercase letters starting at p (calc.c:535)
NameEnd(s, p) == Minimum({q \in p .. Len(s) : q = Len(s) \/ ~isAlpha(CharAt(s, q))})

\* offset after the maximal run of numeric-class characters (calc.c:669-673)
NumericEnd(s, p) == Minimum({q \in p .. Len(s) : q = Len(s) \/ ~isNumeric(CharAt(s, q))})

\* the parenthesis level after the characters at offsets from .. q have been
\* read, starting from pLvl (calc.c:550-551, 621-622)
LevelAt(s, from, q, pLvl) ==
    pLvl + Cardinality({r \in from .. q : CharAt(s, r) = "("})
         - Cardinality({r \in from .. q : CharAt(s, r) = ")"})

\* the while loop at calc.c:619-628: tmp stops on the first character that
\* brings the level to 0, or at the end of the string
MatchParen(s, tmp, pLvl) ==
    LET closing == {q \in tmp .. (Len(s) - 1) : LevelAt(s, tmp, q, pLvl) = 0}
    IN  IF closing # {} THEN [tmp |-> Minimum(closing), pLvl |-> 0]
        ELSE [tmp |-> Max(tmp, Len(s)), pLvl |-> LevelAt(s, tmp, Len(s) - 1, pLvl)]

\* the for loop at calc.c:548-555: the characters read while the level is not
\* 0 are the argument; tmp stops after the character that brings it to 0
ScanArg(s, tmp, pLvl) ==
    LET m == MatchParen(s, tmp, pLvl)
    IN  IF m.pLvl = 0
        THEN [tmp |-> m.tmp + 1, pLvl |-> 0, arg |-> SubSeq(s, tmp + 1, m.tmp)]
        ELSE [tmp |-> m.tmp, pLvl |-> m.pLvl, arg |-> SubSeq(s, tmp + 1, Len(s))]

\* GrabOperator without the no-token check of calc.c:691-697
GrabOperatorNoCheck(f) ==
    IF f.ptr < exprEnd(f)
    THEN IF ~isOper(CharAt(f.expr, f.ptr)) THEN Fail("ExpectedOperator")
         ELSE IF f.numTokens < 1 THEN Fail("OperatorWithoutToken")
         ELSE IF f.numTokens - 1 >= TokenCap THEN Undefined("operators")
         ELSE Next1([f EXCEPT !.operators[f.numTokens - 1] = CharAt(f.expr, f.ptr),
                              !.ptr = f.ptr + 1])
    ELSE Next1(f)

\* calc.c:691-722: the no-token check, then the operator after the token
GrabOperator(f) ==
    IF f.numTokens - f.numTokensAtStart = 0 THEN Fail("NoTokenProduced")
    ELSE IF f.ptr < exprEnd(f)
    THEN IF ~isOper(CharAt(f.expr, f.ptr)) THEN Fail("ExpectedOperator")
         ELSE IF f.numTokens < 1 THEN Fail("OperatorWithoutToken")
         ELSE IF f.numTokens - 1 >= TokenCap THEN Undefined("operators")
         ELSE Next1([f EXCEPT !.operators[f.numTokens - 1] = CharAt(f.expr, f.ptr),
                              !.ptr = f.ptr + 1])
    ELSE Next1(f)

\* calc.c:663-689: a numeric literal
NumericToken(f) ==
    LET tmp == NumericEnd(f.expr, f.ptr)
        isFloat == \E p \in f.ptr .. (tmp - 1) : CharAt(f.expr, p) = "."
        t == IF isFloat THEN strtod(f.expr, f.ptr) ELSE strtoll(f.expr, f.ptr)
    IN  IF f.numTokens >= TokenCap THEN Undefined("tokens")
        ELSE GrabOperator([PutToken(f, t.val) EXCEPT !.ptr = t.end])

\* calc.c:614-651: a parenthesized subexpression, up to the recursive call
SubExprToken(f) ==
    LET m == MatchParen(f.expr, f.ptr + 1, 1)
        subExpr == SubSeq(f.expr, f.ptr + 2, m.tmp)
    IN  IF m.pLvl # 0 THEN Fail("UnterminatedGroup")
        ELSE IF Len(subExpr) >= SubCap THEN Undefined("subExpr")
        ELSE CallSub([f EXCEPT !.ptr = m.tmp + 1, !.pc = "subRet"], subExpr)

\* calc.c:613-722: what follows the name branch within one loop iteration
ParenOrNumeric(f) ==
    IF f.ptr < exprEnd(f) /\ CharAt(f.expr, f.ptr) = "("
    THEN SubExprToken(f)
    ELSE IF f.ptr < exprEnd(f) /\ isNumeric(CharAt(f.expr, f.ptr))
    THEN NumericToken(f)
    ELSE GrabOperator(f)

\* calc.c:600-610: after a constant or function token
AfterName(f) ==
    IF f.ptr < exprEnd(f) /\ ~isOper(CharAt(f.expr, f.ptr)) THEN Fail("ExpectedOperator")
    ELSE IF f.ptr >= exprEnd(f) \/ CharAt(f.expr, f.ptr) = NUL THEN Next1(f)
    ELSE ParenOrNumeric(f)

\* calc.c:528-598: a name, up to the recursive call (function) or the token (constant)
NameToken(f) ==
    LET tmp == NameEnd(f.expr, f.ptr)
        vfStr == SubSeq(f.expr, f.ptr + 1, tmp)
        a == ScanArg(f.expr, tmp + 1, 1)
        constVal == getConst(vfStr)
    IN  IF Len(vfStr) >= NameCap THEN Undefined("vfStr")
        ELSE IF CharAt(f.expr, tmp) = "("
        THEN IF Len(a.arg) >= ArgCap THEN Undefined("funcArg")
             ELSE IF a.pLvl # 0 THEN Fail("UnterminatedGroup")
             ELSE CallSub([f EXCEPT !.ptr = a.tmp, !.vfStr = vfStr, !.pc = "funcRet"], a.arg)
        ELSE IF constVal = Zero THEN Fail("UnknownIdentifier")
        ELSE IF f.numTokens >= TokenCap THEN Undefined("tokens")
        ELSE AfterName([PutToken(f, constVal) EXCEPT !.ptr = tmp])

\* calc.c:506-525 and the dispatch on *ptr: one iteration of the tokenizing loop
Iteration(f) ==
    LET g == [f EXCEPT !.numTokensAtStart = f.numTokens, !.loopCount = f.loopCount + 1]
    IN  IF g.loopCount > LoopLimit THEN Abort("TokenizerRunaway")
        ELSE IF g.numTokens >= TokenCap THEN Fail("TokenCapacityExceeded")
        ELSE IF isAlpha(CharAt(g.expr, g.ptr)) THEN NameToken(g)
        ELSE ParenOrNumeric(g)

\* calc.c:568-576: back from evaluate(funcArg, depth + 1)
AfterFuncCall(f, argVal, flag) ==
    LET r == doFunc(f.vfStr, argVal)
    IN  IF flag THEN Return(Zero)
        ELSE IF f.numTokens >= TokenCap THEN Undefined("tokens")
        ELSE IF r.err THEN Fail("UnknownFunction")
        ELSE AfterName([PutToken(f, r.ret) EXCEPT !.pc = "scan"])

\* AfterSubCall without the test of errorFlag at calc.c:656
AfterSubCallNoCheck(f, val, flag) ==
    LET g == [PutToken(f, val) EXCEPT !.pc = "scan"]
    IN  IF f.numTokens >= TokenCap THEN Undefined("tokens")
        ELSE IF g.ptr >= exprEnd(g) \/ CharAt(g.expr, g.ptr) = NUL THEN Next1(g)
        ELSE GrabOperator(g)

\* calc.c:654-660: back from evaluate(subExpr, depth + 1)
AfterSubCall(f, val, flag) ==
    LET g == [PutToken(f, val) EXCEPT !.pc = "scan"]
    IN  IF f.numTokens >= TokenCap THEN Undefined("tokens")
        ELSE IF flag THEN Return(Zero)
        ELSE IF g.ptr >= exprEnd(g) \/ CharAt(g.expr, g.ptr) = NUL THEN Next1(g)
        ELSE GrabOperator(g)

-----------------------------------------------------------------------------
(* evaluate(): the reduction pass, calc.c:743-868 *)

\* Collapse without the loop that moves the operators down (calc.c:786-787)
CollapseNoShift(f, r) ==
    [f EXCEPT
        !.tokens = [j \in Slots |->
                        IF j = f.i THEN r
                        ELSE IF j >= f.i + 1 /\ j < f.numTokens - 1 THEN f.tokens[j + 1]
                        ELSE f.tokens[j]],
        !.numTokens = f.numTokens - 1]

\* Collapse without the i-- of calc.c:857: the scan moves on past the result
CollapseSkip(f, r) ==
    [f EXCEPT
        !.tokens = [j \in Slots |->
                        IF j = f.i THEN r
                        ELSE IF j >= f.i + 1 /\ j < f.numTokens - 1 THEN f.tokens[j + 1]
                        ELSE f.tokens[j]],
        !.operators = [j \in Slots |->
                        IF j >= f.i /\ j < f.numTokens - 2 THEN f.operators[j + 1]
                        ELSE f.operators[j]],
        !.numTokens = f.numTokens - 1,
        !.i = f.i + 1]

\* calc.c:781-789 (the same statements at 810-818 and 835-843) and the i--
\* of calc.c:857 before the loop's i++: the pair at index i collapses into r
\* and the scan stays at i
Collapse(f, r) ==
    [f EXCEPT
        !.tokens = [j \in Slots |->
                        IF j = f.i THEN r
                        ELSE IF j >= f.i + 1 /\ j < f.numTokens - 1 THEN f.tokens[j + 1]
                        ELSE f.tokens[j]],
        !.operators = [j \in Slots |->
                        IF j >= f.i /\ j < f.numTokens - 2 THEN f.operators[j + 1]
                        ELSE f.operators[j]],
        !.numTokens = f.numTokens - 1]

\* InPhase with the additive operators reduced before the multiplicative ones
InPhaseSwapped(evalPhase, oper) ==
    CASE evalPhase = 0 -> oper = "^"
      [] evalPhase = 1 -> oper \in {"+", "-"}
      [] OTHER -> oper \in {"*", "/", "%"}

\* whether the phase reduces this operator (calc.c:757-761 and 763)
InPhase(evalPhase, oper) ==
    CASE evalPhase = 0 -> oper = "^"
      [] evalPhase = 1 -> oper \in {"*", "/", "%"}
      [] OTHER -> oper \in {"+", "-"}

\* one test of the while at calc.c:748 or of the for at calc.c:751, and the
\* loop body that follows it
ReduceIteration(f) ==
    LET oper == f.operators[f.i]
        t1 == f.tokens[f.i]
        t2 == f.tokens[f.i + 1]
    IN  IF ~(f.evalPhase < 3) THEN Return(f.tokens[0])
        ELSE IF ~(f.i < f.numTokens - 1)
        THEN Next1([f EXCEPT !.evalPhase = f.evalPhase + 1, !.i = 0])
        ELSE IF f.evalPhase < 2 /\ ~InPhase(f.evalPhase, oper)
        THEN Next1([f EXCEPT !.i = f.i + 1])
        ELSE IF f.evalPhase = 2 /\ ~InPhase(2, oper) THEN Fail("InvalidOperator")
        ELSE IF ~isOper(oper) THEN Fail("NonOperator")
        ELSE Next1(Collapse(f, ApplyOp(oper, t1, t2)))

-----------------------------------------------------------------------------
(* evaluate(): steps *)

\* the effect of an outcome of the innermost call on the evaluator's state
Apply(o) ==
    /\ stack' = CASE o.k = "next" -> [stack EXCEPT ![Len(stack)] = o.f]
                  [] o.k = "call" -> Append([stack EXCEPT ![Len(stack)] = o.f],
                                            NewFrame(o.arg, o.f.depth + 1))
                  [] o.k \in {"fail", "return"} -> SubSeq(stack, 1, Len(stack) - 1)
                  [] OTHER -> stack
    /\ errorFlag' = IF o.k = "fail" THEN TRUE ELSE errorFlag
    /\ diag' = IF o.k \in {"fail", "abort", "undefined"} THEN Append(diag, o.err) ELSE diag
    /\ result' = CASE o.k = "fail" -> Zero
                   [] o.k = "return" -> o.val
                   [] OTHER -> result
    /\ proc' = CASE o.k = "abort" -> "aborted"
                 [] o.k = "undefined" -> "undefined"
                 [] OTHER -> proc
    /\ call' = call

Evaluating == proc = "running" /\ Len(stack) > 0

\* Entry with the depth test off by one
EntryLate(f) ==
    IF strlen(f.expr) < 1 THEN Fail("EmptyExpression")
    ELSE IF f.depth > RecursionLimit + 1 THEN Abort("RecursionLimitExceeded")
    ELSE Next1([f EXCEPT !.pc = "scan"])

\* calc.c:473-499
Entry(f) ==
    IF strlen(f.expr) < 1 THEN Fail("EmptyExpression")
    ELSE IF f.depth > RecursionLimit THEN Abort("RecursionLimitExceeded")
    ELSE Next1([f EXCEPT !.pc = "scan"])

EvalEntry ==
    /\ Evaluating /\ Top.pc = "entry"
    /\ Apply(Entry(Top))
    /\ UNCHANGED <<mainVars, ed, gen>>

TokenizeStep ==
    /\ Evaluating /\ Top.pc = "scan" /\ Top.ptr < exprEnd(Top)
    /\ Apply(Iteration(Top))
    /\ UNCHANGED <<mainVars, ed, gen>>

FuncReturn ==
    /\ Evaluating /\ Top.pc = "funcRet"
    /\ Apply(AfterFuncCall(Top, result, errorFlag))
    /\ UNCHANGED <<mainVars, ed, gen>>

SubReturn ==
    /\ Evaluating /\ Top.pc = "subRet"
    /\ Apply(AfterSubCall(Top, result, errorFlag))
    /\ UNCHANGED <<mainVars, ed, gen>>

\* the tokenizing loop ends (calc.c:504) and the reduction pass starts (calc.c:743)
BeginReduce ==
    /\ Evaluating /\ Top.pc = "scan" /\ ~(Top.ptr < exprEnd(Top))
    /\ Apply(Next1([Top EXCEPT !.pc = "reduce", !.evalPhase = 0, !.i = 0]))
    /\ UNCHANGED <<mainVars, ed, gen>>

ReduceStep ==
    /\ Evaluating /\ Top.pc = "reduce"
    /\ Apply(ReduceIteration(Top))
    /\ UNCHANGED <<mainVars, ed, gen>>

EvalStep == EvalEntry \/ TokenizeStep \/ FuncReturn \/ SubReturn \/ BeginReduce \/ ReduceStep

-----------------------------------------------------------------------------
(* Reference evaluator: a recursive-descent parser with the standard       *)
(* precedence (^ first, then * / %, then + -), each tier grouping from the *)
(* left, parenthesized groups first.  A primary is a decimal literal       *)
(* (optional leading '-', digits without a redundant leading zero, an      *)
(* optional fraction), a parenthesized expression and, when names are      *)
(* allowed, one of the constants pi, e or sin(..), cos(..), sqrt(..).      *)
(* A parse yields: ok, the value, the offset reached, cnt = the primaries  *)
(* read at this level, mx = the largest number of primaries at one level   *)
(* of a nested group, nest = the depth of nesting of the groups read.      *)

RefFail(p) == [ok |-> FALSE, val |-> Zero, pos |-> p, cnt |-> 0, mx |-> 0, nest |-> 0]

RefLiteral(s, p) ==
    LET neg == CharAt(s, p) = "-"
        p1 == IF neg THEN p + 1 ELSE p
        ip == ReadDigits(s, p1, 10, 0, 0)
        hasDot == CharAt(s, ip.end) = "."
        fp == IF hasDot THEN ReadDigits(s, ip.end + 1, 10, ip.val, 0)
                        ELSE [val |-> ip.val, cnt |-> 0, end |-> ip.end]
        den == SatPow(10, fp.cnt)
        sgn == IF neg THEN -1 ELSE 1
    IN  IF ip.cnt = 0 \/ (hasDot /\ fp.cnt = 0) THEN RefFail(p)
        ELSE IF ip.cnt > 1 /\ CharAt(s, p1) = "0" THEN RefFail(p)
        ELSE IF fp.val = Over \/ den = Over THEN RefFail(p)
        ELSE [ok |-> TRUE, val |-> Ratio(sgn * fp.val, den), pos |-> fp.end,
              cnt |-> 1, mx |-> 0, nest |-> 0]

RefFuncs == {<<"s", "i", "n">>, <<"c", "o", "s">>, <<"s", "q", "r", "t">>}
RefFuncName(name) ==
    IF name = <<"s", "i", "n">> THEN "sin"
    ELSE IF name = <<"c", "o", "s">> THEN "cos" ELSE "sqrt"

RECURSIVE RefPrimary(_, _, _), RefTier(_, _, _, _), RefTail(_, _, _, _, _)

\* the operators of a tier: 1 is + -, 2 is * / %, 3 is ^
TierOps(tier) ==
    CASE tier = 1 -> {"+", "-"} [] tier = 2 -> {"*", "/", "%"} [] OTHER -> {"^"}

RefGroup(s, p, names, wrap, fn) ==
    LET r == RefTier(s, p + 1, names, 1)
    IN  IF r.ok /\ CharAt(s, r.pos) = ")"
        THEN [ok |-> TRUE, val |-> IF wrap THEN <<fn, r.val, 0>> ELSE r.val,
              pos |-> r.pos + 1, cnt |-> 1, mx |-> Max(r.cnt, r.mx), nest |-> r.nest + 1]
        ELSE RefFail(p)

RefPrimary(s, p, names) ==
    LET c == CharAt(s, p)
        ne == NameEnd(s, p)
        name == SubSeq(s, p + 1, ne)
    IN  IF c = "(" THEN RefGroup(s, p, names, FALSE, "")
        ELSE IF names /\ isAlpha(c)
        THEN IF CharAt(s, ne) = "("
             THEN IF name \in RefFuncs THEN RefGroup(s, ne, names, TRUE, RefFuncName(name))
                  ELSE RefFail(p)
             ELSE IF name = <<"p", "i">>
                  THEN [ok |-> TRUE, val |-> PI, pos |-> ne, cnt |-> 1, mx |-> 0, nest |-> 0]
             ELSE IF name = <<"e">>
                  THEN [ok |-> TRUE, val |-> E, pos |-> ne, cnt |-> 1, mx |-> 0, nest |-> 0]
             ELSE RefFail(p)
        ELSE RefLiteral(s, p)

\* an operand of tier `tier`, then the operators of that tier from the left
RefTier(s, p, names, tier) ==
    LET a == IF tier = 3 THEN RefPrimary(s, p, names) ELSE RefTier(s, p, names, tier + 1)
    IN  IF a.ok THEN RefTail(s, a, names, tier, a.val) ELSE a

RefTail(s, a, names, tier, acc) ==
    LET op == CharAt(s, a.pos)
        b == IF tier = 3 THEN RefPrimary(s, a.pos + 1, names)
                         ELSE RefTier(s, a.pos + 1, names, tier + 1)
    IN  IF op \in TierOps(tier)
        THEN IF b.ok
             THEN RefTail(s, [ok |-> TRUE, val |-> ApplyOp(op, acc, b.val), pos |-> b.pos,
                              cnt |-> a.cnt + b.cnt, mx |-> Max(a.mx, b.mx),
                              nest |-> Max(a.nest, b.nest)],
                          names, tier, ApplyOp(op, acc, b.val))
             ELSE RefFail(a.pos)
        ELSE a

\* the parse of the whole string
Ref(s, names) ==
    LET r == RefTier(s, 0, names, 1)
    IN  IF r.ok /\ r.pos = Len(s) THEN r ELSE RefFail(0)

WellFormed(s, names) == Ref(s, names).ok
RefValue(s, names) == Ref(s, names).val
\* the largest number of tokens at one nesting level, and the nesting depth
LevelTokens(s, names) == Max(Ref(s, names).cnt, Ref(s, names).mx)
Nesting(s, names) == Ref(s, names).nest

-----------------------------------------------------------------------------
(* The interactive front-end's buffer and the expression history,          *)
(* calc.c:34-37, 148-151 and 921-1008.  The printable characters typed are *)
(* all the same character, so that a text is given by its length: the      *)
(* buffer expr holds len characters followed by NULs, and a history buffer *)
(* is modelled by the length of the text it holds.                         *)

ExprBuf == 4096          \* char expr[4096]
BufSpace == 4095         \* uint32_t bufSpace = 4095
EXPR_HIST_SIZE == 500    \* #define EXPR_HIST_SIZE 500
CopyMax == 4095          \* strncpy(.., .., 4095)
FlushAt == 4093          \* if(exprIndex >= 4093 && ch != '\n')

NoBuffer == <<>>         \* exprHistory[EXPR_HIST_SIZE] is a null pointer
InBounds == <<>>         \* no write outside expr has happened

\* exprIndex, the length of the text in expr, clearInput, the lengths of the
\* texts in exprHistory[0 .. exprHistCount-1], exprHistory[EXPR_HIST_SIZE] as
\* <<the length of its text>>, exprHistIndex, and oob: <<the index of the
\* first write outside expr>>
EdInit ==
    [exprIndex |-> 0, len |-> 0, clearInput |-> FALSE, hist |-> <<>>,
     cur |-> NoBuffer, exprHistIndex |-> 0, oob |-> InBounds]

exprHistCount(e) == Len(e.hist)

\* calc.c:921-944
addHist(e, n) ==
    [e EXCEPT !.hist = Append(IF Len(e.hist) = EXPR_HIST_SIZE THEN Tail(e.hist) ELSE e.hist,
                              Min(n, CopyMax))]

\* setCurHistExpr that stores an empty text
setCurHistExprEmpty(e, n) == [e EXCEPT !.cur = <<0>>]

\* calc.c:946-953
setCurHistExpr(e, n) == [e EXCEPT !.cur = <<Min(n, CopyMax)>>]

\* calc.c:1002-1008
histReset(e) ==
    [e EXCEPT !.exprHistIndex = EXPR_HIST_SIZE,
              !.cur = IF e.cur # NoBuffer THEN <<0>> ELSE NoBuffer]

\* calc.c:966-974, with exprHistIndex as left by calc.c:960-961: ok is the
\* value returned, ub whether a buffer that is not there is read
histBackCopy(e, idx) ==
    IF idx > 0
    THEN IF idx - 1 < exprHistCount(e)
         THEN [e |-> [e EXCEPT !.exprHistIndex = idx - 1, !.len = e.hist[idx]],
               ok |-> TRUE, ub |-> FALSE]
         ELSE [e |-> e, ok |-> TRUE, ub |-> TRUE]
    ELSE [e |-> [e EXCEPT !.exprHistIndex = idx], ok |-> FALSE, ub |-> FALSE]

\* calc.c:960-964
histBackFrom(e, idx) ==
    histBackCopy(IF idx = exprHistCount(e) THEN setCurHistExpr(e, e.len) ELSE e, idx)

\* calc.c:955-975
histBack(e) ==
    IF exprHistCount(e) = 0 THEN [e |-> e, ok |-> FALSE, ub |-> FALSE]
    ELSE histBackFrom(e, IF e.exprHistIndex = EXPR_HIST_SIZE THEN exprHistCount(e)
                                                             ELSE e.exprHistIndex)

\* calc.c:977-1000
histFwd(e) ==
    IF exprHistCount(e) = 0 THEN [e |-> e, ok |-> FALSE, ub |-> FALSE]
    ELSE IF e.exprHistIndex < exprHistCount(e) - 1
    THEN [e |-> [e EXCEPT !.exprHistIndex = e.exprHistIndex + 1,
                          !.len = e.hist[e.exprHistIndex + 2]],
          ok |-> TRUE, ub |-> FALSE]
    ELSE IF e.exprHistIndex = exprHistCount(e) - 1 /\ e.exprHistIndex # EXPR_HIST_SIZE
    THEN IF e.cur = NoBuffer THEN [e |-> e, ok |-> TRUE, ub |-> TRUE]
         ELSE [e |-> [e EXCEPT !.exprHistIndex = EXPR_HIST_SIZE, !.len = e.cur[1]],
               ok |-> TRUE, ub |-> FALSE]
    ELSE [e |-> e, ok |-> FALSE, ub |-> FALSE]

-----------------------------------------------------------------------------
(* Inputs *)

MaxLen == 4        \* every string over Alphabet up to this length is an input
MaxChain == 2      \* tokens in the chains built from every kind of token
MaxLitChain == 3   \* tokens in the chains built from literals and groups

Alphabet == {"1", "-", "*", "^", "(", ")", "e", "."}

AllStrings == UNION {[1 .. n -> Alphabet] : n \in 0 .. MaxLen}

Opers == {"+", "-", "*", "/", "%", "^"}

LitTerms == {<<"2">>, <<"-", "3">>, <<"(", "5", "-", "2", ")">>}
Terms == LitTerms \cup {<<"p", "i">>, <<"s", "i", "n", "(", "2", ")">>}

RECURSIVE ChainsOf(_, _)
ChainsOf(T, n) ==
    IF n <= 1 THEN T
    ELSE {c \o <<op>> \o t : c \in ChainsOf(T, n - 1), op \in Opers, t \in T}

Chains == UNION {ChainsOf(Terms, n) : n \in 1 .. MaxChain}
            \cup UNION {ChainsOf(LitTerms, n) : n \in 1 .. MaxLitChain}

\* n copies of tok joined by op
RECURSIVE Rep(_, _, _)
Rep(n, tok, op) == IF n <= 1 THEN tok ELSE Rep(n - 1, tok, op) \o <<op>> \o tok

Examples ==
    { <<"2", "+", "3", "*", "4">>,
      <<"2", "^", "3", "^", "2">>,
      <<"1", "0", "%", "3", "+", "1">>,
      <<"5", "*", "-", "2">>,
      <<"5", "-", "-", "2">>,
      <<"-", "5", "^", "2">>,
      <<"f", "o", "o", "(", "1", ")">>,
      <<"b", "a", "r", "+", "1">>,
      <<"s", "q", "r", "t", "(", "4">>,
      <<"5", ".", "5", "%", "2">>,
      <<"s", "q", "r", "t", "(", "5", "*", "5", "+", "6", "*", "6", ")">>,
      <<"2", "*", "(", "3", "+", "(", "4", "-", "1", ")", ")", "^", "2">>,
      <<"2", "*", "(", "3", "+", "(", "4", "-", ")", ")">>,
      <<"s", "i", "n", "(", "(", "2", "+", "x", ")", ")", "+", "1">>,
      <<"c", "o", "s", "(", "f", "o", "o", "(", "1", ")", ")">>,
      <<"0", "x", "1", "0", "+", "0", "1", "0">>,
      <<"0", "1", "0", "-", "1", ".", "5">>,
      <<"2", "*", "-", "(", "3", ")">> }

\* expressions around the capacity of 50 tokens at one nesting level
LongInputs ==
    { Rep(n, <<"1">>, "+") : n \in {TokenCap - 1, TokenCap, TokenCap + 1} }
    \cup { Rep(n, <<"2">>, "*") \o tail :
             n \in {TokenCap - 2, TokenCap - 1, TokenCap},
             tail \in { <<"+", "e">>, <<"+", "(", "1", ")">>,
                        <<"+", "s", "i", "n", "(", "1", ")">>,
                        <<"+", "p", "i", "-", "2">>,
                        <<"+", "(", "1", ")", "-", "2">> } }
    \cup { <<"(">> \o Rep(n, <<"1">>, "-") \o <<")">> : n \in {TokenCap, TokenCap + 1} }

\* calls near the recursion limit
DeepInputs ==
    { <<>>, <<"1">>, <<"(", "1", ")">>, <<"(", ")">>, <<"(", "(", "1", ")", ")">>,
      <<"(", "(", ")", ")">>, <<"s", "i", "n", "(", "1", ")">>, <<"s", "i", "n", "(", ")">>,
      <<"1", "+", "(", "2", ")">>, <<"(", "1">> }
DeepDepths == {RecursionLimit - 1, RecursionLimit, RecursionLimit + 1}

\* names around the 256 bytes of vfStr and function arguments around the 1024
\* bytes of funcArg
WideInputs ==
    { [k \in 1 .. n |-> "a"] : n \in {NameCap - 1, NameCap + 1} }
    \cup { <<"s", "i", "n", "(">>
              \o [k \in 1 .. n |-> IF k % 2 = 1 THEN "1" ELSE "+"] \o <<")">> :
              n \in {ArgCap - 1, ArgCap + 1} }

Calls == ((AllStrings \cup Chains \cup Examples \cup LongInputs) \X {0})
            \cup (DeepInputs \X DeepDepths)

-----------------------------------------------------------------------------
(* The evaluator on its own: calls evaluate(e, d) made with errorFlag unset, *)
(* as main() makes them (calc.c:32, 171) *)

NoCall == [expr |-> <<>>, depth |-> -1]

\* generateExpressions() not called
GenIdle == [pc |-> "idle", count |-> 0, maxLen |-> 0, i |-> 0, randChoice |-> 0,
            tempStr |-> <<>>, genCount |-> 0, outBuf |-> <<>>]

Init ==
    /\ stack = <<>>
    /\ errorFlag = FALSE
    /\ result = NoValue
    /\ diag = <<>>
    /\ proc = "running"
    /\ call = NoCall
    /\ mpc = "start"
    /\ mode = "none"
    /\ expr = <<>>
    /\ outcomes = <<>>
    /\ exitStatus = "none"
    /\ lines = 0
    /\ ed = EdInit
    /\ gen = GenIdle

CallEvaluate ==
    /\ proc = "running" /\ stack = <<>> /\ mode = "none" /\ call = NoCall
    /\ \E c \in Calls :
         /\ stack' = <<NewFrame(c[1], c[2])>>
         /\ call' = [expr |-> c[1], depth |-> c[2]]
    /\ errorFlag' = FALSE
    /\ diag' = <<>>
    /\ result' = NoValue
    /\ UNCHANGED <<proc, mainVars, ed, gen>>

Next ==
    \/ CallEvaluate
    \/ EvalEntry
    \/ TokenizeStep
    \/ FuncReturn
    \/ SubReturn
    \/ BeginReduce
    \/ ReduceStep

Spec == Init /\ [][Next]_vars

\* the same calls, and calls on the wide inputs
CallEvaluateWide ==
    /\ proc = "running" /\ stack = <<>> /\ mode = "none" /\ call = NoCall
    /\ \E c \in Calls \cup (WideInputs \X {0}) :
         /\ stack' = <<NewFrame(c[1], c[2])>>
         /\ call' = [expr |-> c[1], depth |-> c[2]]
    /\ errorFlag' = FALSE
    /\ diag' = <<>>
    /\ result' = NoValue
    /\ UNCHANGED <<proc, mainVars, ed, gen>>

NextWide ==
    \/ CallEvaluateWide
    \/ EvalEntry
    \/ TokenizeStep
    \/ FuncReturn
    \/ SubReturn
    \/ BeginReduce
    \/ ReduceStep

SpecWide == Init /\ [][NextWide]_vars

\* a top-level call has returned
Returned == proc = "running" /\ stack = <<>> /\ result # NoValue

-----------------------------------------------------------------------------
(* main(): the one-shot and the interactive front-end, calc.c:83-388.      *)
(* The interactive front-end is taken here a whole input line at a time;   *)
(* the keystroke loop that collects the line is modelled further below.    *)

MaxLines == 2        \* input lines read in interactive mode

FlagD == <<"-", "d">>
FlagC == <<"-", "c">>
FlagI == <<"-", "i">>

\* calc.c:356-369 and 306-317: the blanks are removed
RemoveSpaces(s) == SelectSeq(s, LAMBDA c : c # " ")

\* calc.c:341-354: the arguments from argv[i] on are appended to buf while
\* they fit in bufSpace
RECURSIVE Combine(_, _, _, _)
Combine(args, i, buf, bufSpace) ==
    IF i > Len(args) THEN [ok |-> TRUE, buf |-> buf]
    ELSE IF strlen(args[i]) > bufSpace THEN [ok |-> FALSE, buf |-> buf]
    ELSE Combine(args, i + 1, buf \o args[i], bufSpace - strlen(args[i]))

\* calc.c:116-143: the index of the first argument that is not counted as a flag
ArgStart(args) == 1 + Cardinality({i \in 1 .. Len(args) : args[i] \in {FlagD, FlagC}})

OneShotExprs ==
    { <<"2", "+", "3", "*", "4">>, <<"(">>, <<"1", " ", "+", "1">>, <<>>,
      <<"p", "i", "-", "2">>, <<"(", "1", ")">>, <<"2", "^", "(", "3", "-", ")">> }

ArgLists ==
    { <<>>, <<FlagI>>, <<FlagC>>, <<FlagD, FlagI>>,
      <<<<"2">>, <<"+", "3">>>>, <<<<"2", "+">>, <<"(">>>> }
    \cup { <<e>> : e \in OneShotExprs }
    \cup { <<FlagD, e>> : e \in OneShotExprs }

InputLines ==
    { <<"2", "+", "3", "*", "4">>, <<"(">>, <<"1", " ", "+", " ", "1">>, <<>>, <<" ">>,
      <<"q", "q">>, <<"(", "1", ")">>, <<"1">>, <<"(", "2", "+", "x", ")">>,
      <<"s", "q", "r", "t", "(", "4", ")">> }

\* the call evaluate(e, 0) made by main()
StartEvaluate(e) ==
    /\ expr' = e
    /\ stack' = <<NewFrame(e, 0)>>
    /\ call' = [expr |-> e, depth |-> 0]
    /\ result' = NoValue
    /\ diag' = <<>>
    /\ mpc' = "eval"

Exit(status) ==
    /\ exitStatus' = status
    /\ mpc' = "exited"
    /\ proc' = "exited"

\* calc.c:85-164 and 341-376: main() from its start to the interactive loop,
\* to its return, or to the call of evaluate() in one-shot mode
MainStartOn(args) ==
    /\ mpc = "start" /\ proc = "running" /\ mode = "none" /\ call = NoCall
    /\ LET argc == Len(args) + 1
           argStart == ArgStart(args)
           inputMode == \E i \in 1 .. Len(args) : args[i] = FlagI
           c == Combine(args, argStart, <<>>, BufSpace)
       IN  IF argc = 1 \/ argStart >= argc
           THEN /\ Exit(IF argc = 1 THEN "-1" ELSE "0")
                /\ UNCHANGED <<stack, errorFlag, result, diag, call, mode, expr,
                               outcomes, lines, ed, gen>>
           ELSE IF inputMode
           THEN /\ mode' = "interactive"
                /\ mpc' = "prompt"
                /\ UNCHANGED <<stack, errorFlag, result, diag, proc, call, expr,
                               outcomes, exitStatus, lines, ed, gen>>
           ELSE IF ~c.ok
           THEN /\ Exit("-1")
                /\ mode' = "oneshot"
                /\ UNCHANGED <<stack, errorFlag, result, diag, call, expr,
                               outcomes, lines, ed, gen>>
           ELSE /\ mode' = "oneshot"
                /\ StartEvaluate(RemoveSpaces(c.buf))
                /\ UNCHANGED <<errorFlag, proc, outcomes, exitStatus, lines, ed, gen>>

MainStart == \E args \in ArgLists : MainStartOn(args)

\* what main() prints after evaluate() returned (calc.c:378-384, 325-334)
Outcome == [expr |-> expr, error |-> errorFlag,
            printed |-> IF errorFlag THEN NoValue ELSE result]

\* calc.c:376-387: one-shot mode, after evaluate() returned
OneShotFinish ==
    /\ mpc = "eval" /\ mode = "oneshot" /\ proc = "running" /\ stack = <<>>
    /\ outcomes' = Append(outcomes, Outcome)
    /\ Exit("0")
    /\ UNCHANGED <<stack, errorFlag, result, diag, call, mode, expr, lines, ed, gen>>

\* Prompt without the errorFlag = false of calc.c:171
PromptNoReset ==
    /\ mpc = "prompt" /\ mode = "interactive" /\ proc = "running"
    /\ expr' = <<>>
    /\ ed' = [ed EXCEPT !.exprIndex = 0, !.len = 0]
    /\ mpc' = "read"
    /\ UNCHANGED <<stack, errorFlag, result, diag, proc, call, mode, outcomes, exitStatus,
                   lines, gen>>

\* calc.c:169-176: the top of the interactive loop
Prompt ==
    /\ mpc = "prompt" /\ mode = "interactive" /\ proc = "running"
    /\ errorFlag' = FALSE
    /\ expr' = <<>>
    /\ ed' = [ed EXCEPT !.exprIndex = 0, !.len = 0]
    /\ mpc' = "read"
    /\ UNCHANGED <<stack, result, diag, proc, call, mode, outcomes, exitStatus, lines, gen>>

\* calc.c:285-323: the line entered, without its newline, is skipped when
\* empty, ends the program when it is quit or qq, and is evaluated otherwise
LineEntered(line) ==
    /\ lines' = lines + 1
    /\ IF strlen(line) <= 0
       THEN /\ mpc' = "prompt"
            /\ expr' = line
            /\ UNCHANGED <<stack, errorFlag, result, diag, proc, call, mode,
                           outcomes, exitStatus>>
       ELSE IF line = <<"q", "u", "i", "t">> \/ line = <<"q", "q">>
       THEN /\ Exit("0")
            /\ expr' = line
            /\ UNCHANGED <<stack, errorFlag, result, diag, call, mode, outcomes>>
       ELSE /\ StartEvaluate(RemoveSpaces(line))
            /\ UNCHANGED <<errorFlag, proc, mode, outcomes, exitStatus>>

\* calc.c:180-323 taken as one step: a whole line is read
ReadLine ==
    /\ mpc = "read" /\ mode = "interactive" /\ proc = "running"
    /\ lines < MaxLines
    /\ \E line \in InputLines : LineEntered(line)
    /\ UNCHANGED <<ed, gen>>

\* calc.c:323-335: interactive mode, after evaluate() returned
InteractiveFinish ==
    /\ mpc = "eval" /\ mode = "interactive" /\ proc = "running" /\ stack = <<>>
    /\ outcomes' = Append(outcomes, Outcome)
    /\ mpc' = "prompt"
    /\ UNCHANGED <<stack, errorFlag, result, diag, proc, call, mode, expr,
                   exitStatus, lines, ed, gen>>

NextMain ==
    \/ MainStart
    \/ OneShotFinish
    \/ Prompt
    \/ ReadLine
    \/ InteractiveFinish
    \/ EvalEntry
    \/ TokenizeStep
    \/ FuncReturn
    \/ SubReturn
    \/ BeginReduce
    \/ ReduceStep

SpecMain == Init /\ [][NextMain]_vars

-----------------------------------------------------------------------------
(* main(): the keystroke loop of the interactive front-end, calc.c:180-283, *)
(* one step per pass of the loop.  The didPrint flag, which only decides    *)
(* when the output is flushed, is left out.                                 *)

MaxShortLine == 2    \* Enter is pressed on a line of at most this many
                     \* characters or on one of at least FlushAt characters

TypedChar == "1"
Text(n) == [k \in 1 .. n |-> TypedChar]

\* calc.c:184-194: the pending Ctrl-C clears the input
ClearInput(e) ==
    IF e.clearInput
    THEN histReset([e EXCEPT !.exprIndex = 0, !.len = 0, !.clearInput = FALSE])
    ELSE e

\* a write to expr[i] is noted when it is the first one outside expr
Written(e, i) == IF i >= ExprBuf /\ e.oob = InBounds THEN <<i>> ELSE e.oob

\* expr[exprIndex++] = ch for a character ch other than NUL (calc.c:252, 262)
StoreChar(e) ==
    [e EXCEPT !.oob = Written(e, e.exprIndex),
              !.len = IF e.exprIndex = e.len THEN e.len + 1 ELSE e.len,
              !.exprIndex = e.exprIndex + 1]

\* expr[exprIndex++] = 0 (calc.c:267)
StoreNul(e) ==
    [e EXCEPT !.oob = Written(e, e.exprIndex),
              !.len = Min(e.len, e.exprIndex),
              !.exprIndex = e.exprIndex + 1]

\* calc.c:257-258
AddLine(e) == IF e.exprIndex > 1 THEN addHist(e, e.len) ELSE e

\* calc.c:256-268 for ch = '\n'
NewLine(e) == StoreNul(StoreChar(AddLine(histReset(e))))

\* calc.c:285-292 and 306-317: the newline is cut off, exprIndex becomes the
\* length of the text unless the text is empty
Stripped(e) ==
    [e EXCEPT !.len = e.len - 1,
              !.exprIndex = IF e.len - 1 <= 0 THEN e.exprIndex ELSE e.len - 1]

\* a write outside expr is undefined behaviour
Overrun(e) == e.oob # InBounds

InKeyLoop ==
    /\ mpc = "read" /\ mode = "interactive" /\ proc = "running"
    /\ lines < MaxLines

\* the pass leaves the editor as e and the loop goes on
Continue(e) ==
    /\ ed' = e
    /\ proc' = IF Overrun(e) THEN "undefined" ELSE proc
    /\ UNCHANGED <<stack, errorFlag, result, diag, call, mpc, mode, expr, outcomes,
                   exitStatus, lines, gen>>

\* the pass ends the loop with the editor as e (calc.c:264-269, 285-323)
Complete(e) ==
    IF Overrun(e)
    THEN /\ ed' = e
         /\ proc' = "undefined"
         /\ UNCHANGED <<stack, errorFlag, result, diag, call, mpc, mode, expr, outcomes,
                        exitStatus, lines, gen>>
    ELSE /\ ed' = Stripped(e)
         /\ LineEntered(Text(e.len - 1))
         /\ UNCHANGED gen

\* calc.c:244-270 for a printable character
TypeChar ==
    /\ InKeyLoop
    /\ IF ClearInput(ed).exprIndex >= FlushAt
       THEN Complete(NewLine(StoreChar(ClearInput(ed))))
       ELSE Continue(StoreChar(histReset(ClearInput(ed))))

\* calc.c:244-270 for '\n'
Enter ==
    /\ InKeyLoop
    /\ ClearInput(ed).exprIndex <= MaxShortLine \/ ClearInput(ed).exprIndex >= FlushAt
    /\ Complete(NewLine(ClearInput(ed)))

\* expr[--exprIndex] = 0 (calc.c:278)
EraseChar(e) ==
    [e EXCEPT !.oob = Written(e, e.exprIndex - 1),
              !.len = Min(e.len, e.exprIndex - 1),
              !.exprIndex = e.exprIndex - 1]

\* calc.c:273-282
Backspace ==
    /\ InKeyLoop
    /\ IF ClearInput(ed).exprIndex > 0
       THEN Continue(EraseChar(histReset(ClearInput(ed))))
       ELSE Continue(ClearInput(ed))

\* calc.c:234-238: exprIndex = strlen(expr) when histBack or histFwd returned true
Shown(r) == IF r.ok /\ ~r.ub THEN [r.e EXCEPT !.exprIndex = r.e.len] ELSE r.e

\* calc.c:231-238: after histBack or histFwd returned r
Recalled(r) ==
    /\ ed' = Shown(r)
    /\ proc' = IF r.ub THEN "undefined" ELSE proc
    /\ UNCHANGED <<stack, errorFlag, result, diag, call, mpc, mode, expr, outcomes,
                   exitStatus, lines, gen>>

\* calc.c:213-241 for the Up arrow
Up == InKeyLoop /\ Recalled(histBack(ClearInput(ed)))

\* calc.c:213-241 for the Down arrow
Down == InKeyLoop /\ Recalled(histFwd(ClearInput(ed)))

\* calc.c:78-81: Ctrl-C
SigInt ==
    /\ InKeyLoop /\ ~ed.clearInput
    /\ Continue([ed EXCEPT !.clearInput = TRUE])

\* calc.c:184-210: a pass of the loop in which no key is read
Poll ==
    /\ InKeyLoop /\ ed.clearInput
    /\ Continue(ClearInput(ed))

\* calc.c:85-167 for the arguments "-i"
StartInteractive == MainStartOn(<<FlagI>>)

NextLine ==
    \/ StartInteractive
    \/ Prompt
    \/ TypeChar
    \/ Enter
    \/ Backspace
    \/ Up
    \/ Down
    \/ SigInt
    \/ Poll
    \/ InteractiveFinish
    \/ EvalEntry
    \/ TokenizeStep
    \/ BeginReduce
    \/ ReduceStep

SpecLine == Init /\ [][NextLine]_vars

-----------------------------------------------------------------------------
(* The interactive front-end with lines already in its history: the states  *)
(* main() is in at a prompt after HistSizes lines of two to four characters *)
(* were entered, up to a full history, with or without a buffer for the     *)
(* current line left by an earlier Up.  Lines typed are short; lines        *)
(* recalled from the history are entered as they are.                       *)

MaxTyped == 2        \* characters typed on one line

HistSizes == {1, 2, 3, EXPR_HIST_SIZE - 1, EXPR_HIST_SIZE}

HistLines(n) == [k \in 1 .. n |-> 2 + (k % 3)]

InitHist ==
    /\ stack = <<>>
    /\ errorFlag = FALSE
    /\ result = NoValue
    /\ diag = <<>>
    /\ proc = "running"
    /\ call = NoCall
    /\ mpc = "prompt"
    /\ mode = "interactive"
    /\ expr = <<>>
    /\ outcomes = <<>>
    /\ exitStatus = "none"
    /\ lines = 0
    /\ \E n \in HistSizes, c \in {NoBuffer, <<0>>} :
          ed = [EdInit EXCEPT !.hist = HistLines(n), !.cur = c,
                              !.exprHistIndex = EXPR_HIST_SIZE]
    /\ gen = GenIdle

\* calc.c:244-270 for a printable character on a short line
TypeKey == ClearInput(ed).exprIndex < MaxTyped /\ TypeChar

\* calc.c:244-270 for '\n' on a line of any length
EnterKey == InKeyLoop /\ Complete(NewLine(ClearInput(ed)))

NextHist ==
    \/ Prompt
    \/ TypeKey
    \/ EnterKey
    \/ Backspace
    \/ Up
    \/ Down
    \/ SigInt
    \/ Poll
    \/ InteractiveFinish
    \/ EvalEntry
    \/ TokenizeStep
    \/ BeginReduce
    \/ ReduceStep

SpecHist == InitHist /\ [][NextHist]_vars

-----------------------------------------------------------------------------
(* The expression generator, calc.c:1011-1287.  The random pool is taken     *)
(* as a source of 32-bit words and of bytes drawn from RandWords and         *)
(* RandBytes at every read; a part is given by the set of texts that the     *)
(* reads can make of it.  The caller hands over outBuf as count blocks of    *)
(* maxLen NULs, as the comment of calc.c:1021-1024 expects the blocks to be  *)
(* read.                                                                     *)

SUBEXPR  == 0
NUMBER   == 1
OPERATOR == 2

MaxGenLen == 11      \* largest maxLen of a call
MaxGenPair == 4      \* largest maxLen of a call for two expressions

RetryCap == 10
PairCap == 20
NumberRoom == 8
PairRoom == 3
LowWord == 65536
maxNestingLvl == 1

\* words of the random pool: one whose low 16 bits are zero, two that are not
RandWords == {LowWord, 6 * LowWord + 7, 40003}
RandBytes == 0 .. 5

\* an operator table with a character that evaluate() does not know
opersWithAmp == <<"+", "-", "*", "/", "&", "^">>

\* calc.c:1208
opers == <<"+", "-", "*", "/", "%", "^">>

DigitChars == <<"0", "1", "2", "3", "4", "5", "6", "7", "8", "9">>

RECURSIVE NatText(_)
NatText(n) ==
    IF n < 10 THEN <<DigitChars[n + 1]>>
    ELSE NatText(n \div 10) \o <<DigitChars[(n % 10) + 1]>>

\* sprintf(localOut, "%d", n)
IntText(n) == IF n < 0 THEN <<"-">> \o NatText(-n) ELSE NatText(n)

\* sprintf(localOut, "%.3f", v / 65536.0) for 0 < v < 65536: the quotient is
\* exact in a double and printf rounds it to the nearest thousandth, a tie
\* to the even one
FixedText(v) ==
    LET q == (v * 1000) \div LowWord
        r == (v * 1000) % LowWord
        t == IF 2 * r > LowWord \/ (2 * r = LowWord /\ q % 2 = 1) THEN q + 1 ELSE q
    IN  NatText(t \div 1000)
            \o <<".", DigitChars[((t \div 100) % 10) + 1],
                      DigitChars[((t \div 10) % 10) + 1],
                      DigitChars[(t % 10) + 1]>>

\* calc.c:1155-1161, 1170-1176: the first word read whose low half is not zero
LowHalves == {w % LowWord : w \in RandWords} \ {0}

\* calc.c:1152-1203
genNumber ==
    UNION { IF rDecide % 3 = 0
            THEN { IntText((IF b % 3 = 0 THEN -1 ELSE 1)
                           * (IF randVal > rDiv THEN randVal % rDiv ELSE rDiv % randVal)) :
                       rDiv \in LowHalves, b \in RandBytes }
            ELSE { FixedText(randVal) } :
            randVal \in LowHalves, rDecide \in RandBytes }

\* calc.c:1206-1221
genOperator == { <<opers[(w % Len(opers)) + 1]>> : w \in RandWords }

\* parts longer than PartCap are left out: none of them fits a call's maxLen,
\* and neither do the longest parts that are kept
PartCap == MaxGenLen

RECURSIVE genExpressionPart(_, _)
RECURSIVE genItems(_, _, _, _)

\* calc.c:1235-1274: items i .. n-1 of a subexpression appended to localOut
genItems(i, n, localOut, lvl) ==
    IF i >= n THEN {[out |-> localOut, lvl |-> lvl]}
    ELSE LET heads == IF i > 0 THEN {localOut \o o : o \in genOperator} ELSE {localOut}
             numbers == {[out |-> h \o x, lvl |-> lvl] : h \in heads, x \in genNumber}
             nested == UNION { {[out |-> h \o s.out, lvl |-> s.lvl] : h \in heads} :
                                   s \in genExpressionPart(SUBEXPR, lvl + 1) }
             item == IF i = 0 \/ lvl >= maxNestingLvl THEN numbers
                     ELSE UNION { IF b % 2 = 0 THEN nested ELSE numbers : b \in RandBytes }
         IN  UNION { genItems(i + 1, n, r.out, r.lvl) :
                        r \in {x \in item : Len(x.out) < PartCap} }

\* calc.c:1143-1287: the texts appended to out, each with the nesting level
\* written back through thisNestLvl
genExpressionPart(part, lvl) ==
    CASE part = NUMBER -> {[out |-> x, lvl |-> lvl] : x \in genNumber}
      [] part = OPERATOR -> {[out |-> o, lvl |-> lvl] : o \in genOperator}
      [] OTHER ->
           UNION { {[out |-> r.out \o <<")">>, lvl |-> r.lvl] :
                       r \in genItems(0, (b % 2) + 2, <<"(">>, lvl)} : b \in RandBytes }

Numbers == {r.out : r \in genExpressionPart(NUMBER, 0)}
SubExprs == {r.out : r \in genExpressionPart(SUBEXPR, 0)}
Operators == {r.out : r \in genExpressionPart(OPERATOR, 0)}

Parts(randChoice) == IF randChoice = SUBEXPR THEN SubExprs ELSE Numbers

\* the fit check without the room for the operator and the terminator
FitsNoMargin(exprStr, tempStr, maxLen) ==
    strlen(exprStr) + strlen(tempStr) < maxLen + 1

\* calc.c:1067, 1112 in uint32_t: maxLen - 1 wraps when maxLen is 0
Fits(exprStr, tempStr, maxLen) ==
    maxLen = 0 \/ strlen(exprStr) + strlen(tempStr) < maxLen - 1

\* calc.c:1052, 1084 in size_t: the difference wraps when tempStr is longer
LessRoom(maxLen, tempStr, n) ==
    maxLen >= strlen(tempStr) /\ maxLen - strlen(tempStr) < n

\* calc.c:1058-1072, 1104-1117: the part of the first attempt that fits
Attempts(randChoice, tempStr, maxLen) ==
    IF RetryCap > 0 THEN {p \in Parts(randChoice) : Fits(p, tempStr, maxLen)} ELSE {}

\* calc.c:1058-1072, 1104-1117: no attempt may fit
MayFail(randChoice, tempStr, maxLen) ==
    RetryCap = 0 \/ {p \in Parts(randChoice) : ~Fits(p, tempStr, maxLen)} # {}

GenArgs == ({1} \X (1 .. MaxGenLen)) \cup ({2} \X (1 .. MaxGenPair))

\* the C string at offset off of buf
CStr(buf, off) ==
    LET nuls == {k \in off + 1 .. Len(buf) : buf[k] = NUL}
        end == IF nuls = {} THEN Len(buf) ELSE Minimum(nuls) - 1
    IN  SubSeq(buf, off + 1, end)

\* strncpy(buf + off, s, strlen(s))
CopyAt(buf, off, s) ==
    [k \in 1 .. Max(Len(buf), off + Len(s)) |->
        IF k > off /\ k <= off + Len(s) THEN s[k - off]
        ELSE IF k <= Len(buf) THEN buf[k] ELSE NUL]

GenRunning == proc = "running" /\ mode = "none" /\ stack = <<>> /\ call = NoCall

\* calc.c:1025-1036
GenCall ==
    /\ GenRunning /\ gen.pc = "idle"
    /\ \E a \in GenArgs :
         gen' = [GenIdle EXCEPT !.pc = IF a[1] > 0 THEN "first" ELSE "returned",
                                !.count = a[1], !.maxLen = a[2],
                                !.outBuf = [k \in 1 .. a[1] * a[2] |-> NUL]]
    /\ UNCHANGED <<evalVars, mainVars, ed>>

\* calc.c:1048-1077: the first element of an expression
GenFirst ==
    /\ GenRunning /\ gen.pc = "first"
    /\ \E c \in {b % 2 : b \in RandBytes} :
         LET randChoice == IF LessRoom(gen.maxLen, gen.tempStr, NumberRoom)
                           THEN NUMBER ELSE c
         IN  \/ /\ \E p \in Attempts(randChoice, gen.tempStr, gen.maxLen) :
                      gen' = [gen EXCEPT !.pc = "pairs", !.randChoice = randChoice,
                                         !.tempStr = gen.tempStr \o p, !.genCount = 0]
                /\ UNCHANGED proc
             \/ /\ MayFail(randChoice, gen.tempStr, gen.maxLen)
                /\ gen' = [gen EXCEPT !.pc = "noFirst", !.randChoice = randChoice]
                /\ proc' = "aborted"
    /\ UNCHANGED <<stack, errorFlag, result, diag, call, mainVars, ed>>

\* calc.c:1079-1125: one pass of the loop that appends an operator and an element
GenPair ==
    /\ GenRunning /\ gen.pc = "pairs"
    /\ gen.genCount < PairCap
    /\ ~LessRoom(gen.maxLen, gen.tempStr, PairRoom)
    /\ \/ \E operStr \in Operators,
               exprStr \in Attempts(gen.randChoice, gen.tempStr, gen.maxLen) :
               gen' = [gen EXCEPT !.tempStr = gen.tempStr \o operStr \o exprStr,
                                  !.genCount = gen.genCount + 1]
       \/ /\ MayFail(gen.randChoice, gen.tempStr, gen.maxLen)
          /\ gen' = [gen EXCEPT !.genCount = gen.genCount + 1]
    /\ UNCHANGED <<evalVars, mainVars, ed>>

\* calc.c:1079, 1084 and 1129-1140: the loop ends and the expression is stored;
\* randChoice and genCount, local to the pass (calc.c:1048, 1079), end with it
GenStore ==
    /\ GenRunning /\ gen.pc = "pairs"
    /\ gen.genCount >= PairCap \/ LessRoom(gen.maxLen, gen.tempStr, PairRoom)
    /\ IF strlen(gen.tempStr) < gen.maxLen
       THEN /\ gen' = [gen EXCEPT
                         !.outBuf = CopyAt(gen.outBuf, gen.maxLen * gen.i, gen.tempStr),
                         !.tempStr = <<>>, !.randChoice = 0, !.genCount = 0,
                         !.i = gen.i + 1,
                         !.pc = IF gen.i + 1 < gen.count THEN "first" ELSE "returned"]
            /\ UNCHANGED proc
       ELSE /\ gen' = [gen EXCEPT !.pc = "tooLong"]
            /\ proc' = "aborted"
    /\ UNCHANGED <<stack, errorFlag, result, diag, call, mainVars, ed>>

\* calc.c:1155-1161, 1170-1176: the words read are zero in their low half up to
\* the end of randPool and the read runs past it; nothing that
\* generateExpressions() holds is defined from there on
GenOverrun ==
    /\ GenRunning /\ gen.pc \in {"first", "pairs"}
    /\ gen.pc = "pairs" => /\ gen.genCount < PairCap
                           /\ ~LessRoom(gen.maxLen, gen.tempStr, PairRoom)
    /\ \E w \in RandWords : w % LowWord = 0
    /\ gen' = [GenIdle EXCEPT !.pc = "overrun"]
    /\ proc' = "undefined"
    /\ UNCHANGED <<stack, errorFlag, result, diag, call, mainVars, ed>>

\* evaluate(outBuf + x * maxLen, 0) on a block of a call that returned
GenEvaluate ==
    /\ GenRunning /\ gen.pc = "returned"
    /\ \E x \in 0 .. gen.count - 1 :
         LET e == CStr(gen.outBuf, x * gen.maxLen)
         IN  /\ stack' = <<NewFrame(e, 0)>>
             /\ call' = [expr |-> e, depth |-> 0]
    /\ errorFlag' = FALSE
    /\ diag' = <<>>
    /\ result' = NoValue
    /\ UNCHANGED <<proc, mainVars, ed, gen>>

NextGen ==
    \/ GenCall
    \/ GenFirst
    \/ GenPair
    \/ GenStore
    \/ GenOverrun
    \/ GenEvaluate
    \/ EvalEntry
    \/ TokenizeStep
    \/ SubReturn
    \/ BeginReduce
    \/ ReduceStep

SpecGen == Init /\ [][NextGen]_vars

-----------------------------------------------------------------------------
(* Properties *)

\* the current top-level call is over: it returned, or the process stopped
Finished == call # NoCall /\ (proc # "running" \/ (stack = <<>> /\ result # NoValue))

Pop == SubSeq(stack, 1, Len(stack) - 1)

E_2p3m4 == <<"2", "+", "3", "*", "4">>
E_10r3p1 == <<"1", "0", "%", "3", "+", "1">>
E_2e3e2 == <<"2", "^", "3", "^", "2">>
E_5mn2 == <<"5", "*", "-", "2">>
E_5sn2 == <<"5", "-", "-", "2">>
E_n5e2 == <<"-", "5", "^", "2">>

\* the expression is well-formed and within the evaluator's limits
WithinLimits(s, d, names) ==
    /\ strlen(s) <= BufSpace
    /\ WellFormed(s, names)
    /\ LevelTokens(s, names) <= TokenCap
    /\ d + Nesting(s, names) <= RecursionLimit

\* C1 as stated: every well-formed expression of literals, operators and
\* balanced parentheses evaluates, at depth 0, to the value of the reference
\* evaluator and leaves the error flag unset.
C1_AsStated ==
    (Finished /\ call.depth = 0 /\ WellFormed(call.expr, FALSE))
        => (proc = "running" /\ ~errorFlag /\ result = RefValue(call.expr, FALSE))

\* C1 amended: the same for every well-formed expression of decimal literals
\* of at most 4095 characters that has at most 50 tokens at each nesting level
\* and at most 1000 levels of nested parentheses; 2+3*4 gives 14 and 10%3+1
\* gives 2.
C1_Precedence ==
    (Finished /\ call.depth = 0 /\ WithinLimits(call.expr, 0, FALSE))
        => /\ proc = "running" /\ ~errorFlag
           /\ result = RefValue(call.expr, FALSE)
           /\ call.expr = E_2p3m4 => result = Num(14)
           /\ call.expr = E_10r3p1 => result = Num(2)

C1_Witness ==
    /\ Returned /\ call.depth = 0 /\ ~errorFlag
    /\ call.expr = E_2p3m4 /\ result = Num(14)

\* C2 as stated: 2^3^2 evaluates to 512.
C2_AsStated ==
    (Returned /\ call.depth = 0 /\ call.expr = E_2e3e2) => result = Num(512)

\* C2 amended: 2^3^2 evaluates to 64, the left-to-right grouping (2^3)^2:
\* the first reduction leaves the tokens 8 and 2 joined by ^.
C2_LeftToRight ==
    /\ (Returned /\ call.depth = 0 /\ call.expr = E_2e3e2)
          => (result = Num(64) /\ ~errorFlag)
    /\ (Evaluating /\ Top.expr = E_2e3e2 /\ Top.pc = "reduce" /\ Top.numTokens = 2)
          => (Top.tokens[0] = Num(8) /\ Top.tokens[1] = Num(2) /\ Top.operators[0] = "^")

C2_Witness ==
    Returned /\ call.depth = 0 /\ call.expr = E_2e3e2 /\ result = Num(64)

\* C3: between two iterations of the tokenizing loop every iteration so far
\* has produced exactly one token, and an operator character is recorded
\* between every two consecutive tokens.
C3_OneTokenThenOperator ==
    \A k \in 1 .. Len(stack) :
        stack[k].pc = "scan"
            => /\ stack[k].numTokens = stack[k].loopCount
               /\ \A j \in 0 .. (stack[k].numTokens - 2) : isOper(stack[k].operators[j])

\* the step that sets the error flag is a return of 0.0 by the innermost call
Raise ==
    (Evaluating /\ ~errorFlag /\ errorFlag') => (result' = Zero /\ stack' = Pop)

\* with the flag set, a step is a return of 0.0 by the innermost call that
\* keeps the flag and prints nothing
Unwind ==
    (Evaluating /\ errorFlag)
        => (errorFlag' /\ result' = Zero /\ stack' = Pop /\ proc' = "running" /\ diag' = diag)

\* C4: a step of evaluate() that sets the error flag returns 0.0; while the
\* flag is set every step of evaluate() is a return of 0.0 by the innermost
\* call left, with no further pass of the tokenizing loop and no pair
\* reduced, and the flag stays set until the top-level call has returned 0.0.
C4_ErrorUnwinds == [][Raise /\ Unwind]_vars

C4_Witness ==
    /\ proc = "running" /\ errorFlag /\ Len(stack) = 2
    /\ stack[1].pc = "funcRet" /\ stack[2].pc = "subRet"

C6_CapacityBoundary ==
    (Finished /\ call.depth = 0 /\ WellFormed(call.expr, TRUE)
        /\ Ref(call.expr, TRUE).mx <= TokenCap)
        => /\ Ref(call.expr, TRUE).cnt = TokenCap
                => (proc = "running" /\ ~errorFlag /\ result = RefValue(call.expr, TRUE))
           /\ Ref(call.expr, TRUE).cnt = TokenCap + 1
                => (proc = "running" /\ errorFlag /\ result = Zero
                    /\ diag = <<"TokenCapacityExceeded">>)

\* C7 as stated: no call of evaluate with depth above 1000 returns.
C7_AsStated ==
    /\ call.depth > RecursionLimit => ~Returned
    /\ ~(Evaluating /\ Top.pc \in {"funcRet", "subRet"} /\ Top.depth + 1 > RecursionLimit)

\* a step of a call with depth above 1000 aborts, or fails with
\* EmptyExpression when the text is empty; every call on the stack after the
\* step has its caller's depth plus one
DeepStep ==
    /\ (Evaluating /\ Top.depth > RecursionLimit)
          => IF Top.expr = <<>>
             THEN /\ proc' = "running" /\ errorFlag' /\ result' = Zero
                  /\ stack' = Pop /\ diag' = Append(diag, "EmptyExpression")
             ELSE proc' = "aborted" /\ diag' = Append(diag, "RecursionLimitExceeded")
    /\ \A k \in 2 .. Len(stack') : stack'[k].depth = stack'[k - 1].depth + 1

\* C7 amended: a call of evaluate with depth above 1000 aborts the process
\* when its text is not empty and returns the recoverable EmptyExpression
\* error when it is; a nested call has its caller's depth plus one.
C7_DepthGuard == [][DeepStep]_vars

C7_Witness ==
    /\ proc = "aborted" /\ Len(stack) = 2
    /\ Top.depth = RecursionLimit + 1 /\ Top.expr # <<>>

\* C8: in one-shot mode a recoverable error leaves no result printed and a
\* non-zero exit status; in interactive mode the failed line prints no result
\* and the prompt follows.
C8_ErrorExit ==
    /\ (mode = "oneshot" /\ mpc = "exited" /\ errorFlag)
          => /\ exitStatus # "0"
             /\ \A i \in 1 .. Len(outcomes) : outcomes[i].printed = NoValue
    /\ (mode = "interactive" /\ mpc = "prompt" /\ errorFlag)
          => (outcomes # <<>> /\ outcomes[Len(outcomes)].printed = NoValue)

\* the tokenizing loop of the top-level call on e has read all of e, and the
\* reduction pass has not started
Tokenized(e) ==
    /\ Evaluating /\ Top.depth = 0 /\ Top.expr = e
    /\ Top.pc = "scan" /\ ~(Top.ptr < exprEnd(Top))

\* the tokens and the operator of a tokenized two-token expression
TwoTokens(t1, oper, t2) ==
    /\ Top.numTokens = 2
    /\ Top.tokens[0] = t1 /\ Top.operators[0] = oper /\ Top.tokens[1] = t2

\* C9: a '-' at the start or right after an operator is the sign of the
\* literal that follows, a '-' right after a literal is the subtraction:
\* 5*-2 is the tokens 5 * -2 and gives -10, 5--2 is 5 - -2 and gives 7, -5^2
\* is -5 ^ 2 and gives 25, and for every operator op the expressions 2 op -3
\* and -3 op 2 apply op to the literals 2 and -3.
C9_SignOrMinus ==
    /\ Tokenized(E_5mn2) => TwoTokens(Num(5), "*", Num(-2))
    /\ Tokenized(E_5sn2) => TwoTokens(Num(5), "-", Num(-2))
    /\ Tokenized(E_n5e2) => TwoTokens(Num(-5), "^", Num(2))
    /\ (Returned /\ call.depth = 0)
        => /\ call.expr = E_5mn2 => (result = Num(-10) /\ ~errorFlag)
           /\ call.expr = E_5sn2 => (result = Num(7) /\ ~errorFlag)
           /\ call.expr = E_n5e2 => (result = Num(25) /\ ~errorFlag)
           /\ \A op \in Opers :
                /\ call.expr = <<"2", op, "-", "3">>
                      => (result = ApplyOp(op, Num(2), Num(-3)) /\ ~errorFlag)
                /\ call.expr = <<"-", "3", op, "2">>
                      => (result = ApplyOp(op, Num(-3), Num(2)) /\ ~errorFlag)

C9_Witness ==
    Returned /\ call.depth = 0 /\ call.expr = E_5sn2 /\ result = Num(7) /\ ~errorFlag

\* C10: whatever keys are typed, no write into the 4096-byte buffer expr is
\* at an index of 4096 or more and the buffer never holds more than 4095
\* characters.
C10_BufferBound == ed.oob = InBounds /\ ed.len <= BufSpace

\* the operators recorded by a call: the slots of operators[] that are set
Recorded(f) == {j \in Slots : f.operators[j] # NUL}

\* the tokenizing loop of the innermost call has ended without an error
ScanDone == Evaluating /\ Top.pc = "scan" /\ ~(Top.ptr < exprEnd(Top))

\* C13: when the tokenizing pass of a call ends without error, the operators
\* recorded are as many as the tokens minus one, one between every two
\* consecutive tokens and none after the last token.
C13_OperatorCount ==
    ScanDone => /\ Cardinality(Recorded(Top)) = Top.numTokens - 1
                /\ Recorded(Top) = 0 .. (Top.numTokens - 2)

\* C14: for an input of at most 4095 characters no call of evaluate writes
\* outside tokens[50], operators[50], funcArg[1024] or vfStr[256]: an input
\* that exceeds a capacity ends in an error, not in undefined behaviour.
C14_WithinCapacity ==
    (call # NoCall /\ strlen(call.expr) <= BufSpace) => proc # "undefined"

\* the precedence tier of an operator character
Tier(oper) == CASE oper = "^" -> 0
                [] oper \in {"*", "/", "%"} -> 1
                [] OTHER -> 2

\* the innermost call is in its reduction pass with an operator between every
\* two consecutive tokens
Reducing == Evaluating /\ Top.pc = "reduce"
Joined(f) == f.numTokens >= 1 /\ \A j \in 0 .. (f.numTokens - 2) : isOper(f.operators[j])
Pending(f) == 0 .. (f.numTokens - 2)

\* a bound on the steps the reduction pass has left: the phases to come, each
\* at most a scan of all the slots, and what is left of the current scan
Remaining(f) == (3 - f.evalPhase) * (TokenCap + 1) + (f.numTokens - f.i)

\* a step of the reduction pass that reduces a pair: it is the leftmost pair
\* of the lowest tier left, the two tokens become the one result and the
\* operator goes, the others keep their order
ReducesPair ==
    LET f == Top
        g == stack'[Len(stack)]
    IN  /\ f.i \in Pending(f)
        /\ Tier(f.operators[f.i]) = f.evalPhase
        /\ \A j \in Pending(f) : Tier(f.operators[j]) >= f.evalPhase
        /\ \A j \in 0 .. (f.i - 1) : Tier(f.operators[j]) > f.evalPhase
        /\ g.numTokens = f.numTokens - 1
        /\ g.tokens[f.i] = ApplyOp(f.operators[f.i], f.tokens[f.i], f.tokens[f.i + 1])
        /\ \A j \in 0 .. (f.i - 1) : g.tokens[j] = f.tokens[j]
        /\ \A j \in (f.i + 1) .. (g.numTokens - 1) : g.tokens[j] = f.tokens[j + 1]
        /\ \A j \in 0 .. (f.i - 1) : g.operators[j] = f.operators[j]
        /\ \A j \in f.i .. (g.numTokens - 2) : g.operators[j] = f.operators[j + 1]

\* a step of the reduction pass: it reduces a pair, or leaves the tokens as
\* they are and moves to the next phase only when no operator of the phase is
\* left, or returns the one token left; a step that does not return brings
\* the pass nearer to its end
ReductionStep ==
    (Reducing /\ Joined(Top))
        => /\ proc' = "running" /\ ~errorFlag'
           /\ IF stack' = Pop
              THEN Top.numTokens = 1 /\ result' = Top.tokens[0]
              ELSE /\ Len(stack') = Len(stack)
                   /\ LET g == stack'[Len(stack)]
                      IN  /\ g.pc = "reduce" /\ Joined(g)
                          /\ Remaining(g) >= 0 /\ Remaining(g) < Remaining(Top)
                          /\ IF g.numTokens # Top.numTokens THEN ReducesPair
                             ELSE /\ g.tokens = Top.tokens /\ g.operators = Top.operators
                                  /\ g.evalPhase # Top.evalPhase
                                       => \A j \in Pending(Top) :
                                              Tier(Top.operators[j]) > Top.evalPhase

\* C15: from n tokens joined by n-1 operators the reduction pass terminates
\* (each of its steps lowers a bound on the steps left);
\* it reduces every '^' before any of '* / %' and these before any of '+ -',
\* the leftmost pair of the phase first, each reduction replacing two tokens
\* and their operator by the result with the others kept in order, and it
\* returns the single token left.
C15_Reduction == [][ReductionStep]_vars

C15_Witness ==
    /\ Returned /\ ~errorFlag /\ call.depth = 0
    /\ call.expr = <<"2", "+", "-", "3", "^", "2">> /\ result = Num(11)

\* the innermost call is in an iteration of its tokenizing loop: at the top of
\* the loop with text left, or back from the nested call the iteration made
InIteration ==
    /\ Evaluating
    /\ \/ Top.pc = "scan" /\ Top.ptr < exprEnd(Top)
       \/ Top.pc \in {"funcRet", "subRet"}

\* the iterations the call has started, counting the one the step starts
Started == IF Top.pc = "scan" THEN Top.loopCount + 1 ELSE Top.loopCount

\* a step of an iteration returns 0.0 with the error flag set, or calls
\* evaluate for a group or an argument, or leaves the call with more tokens
\* than it had, never more iterations started than tokens; the runaway guard
\* does not fire (a write outside tokens[] is where the C code stops being
\* defined)
IterationStep ==
    InIteration
        => /\ proc' # "aborted"
           /\ Started <= TokenCap + 1
           /\ \/ errorFlag' /\ stack' = Pop /\ result' = Zero
              \/ proc' = "undefined"
              \/ /\ Len(stack') = Len(stack) + 1
                 /\ stack'[Len(stack)].pc \in {"funcRet", "subRet"}
                 /\ stack'[Len(stack)].loopCount = Started
                 /\ Started <= stack'[Len(stack)].numTokens + 1
              \/ /\ Len(stack') = Len(stack)
                 /\ stack'[Len(stack)].pc = "scan"
                 /\ stack'[Len(stack)].loopCount = Started
                 /\ stack'[Len(stack)].numTokens > Top.numTokens
                 /\ Started <= stack'[Len(stack)].numTokens

\* C16: every iteration of the tokenizing loop of a call returns an error or
\* adds at least one token, so the loop ends after at most 51 iterations and
\* the guard at 10000 iterations never aborts the process.
C16_LoopBound == [][IterationStep]_vars

C16_Witness ==
    /\ proc = "running" /\ stack = <<>> /\ errorFlag /\ call.depth = 0
    /\ diag = <<"TokenCapacityExceeded">> /\ call.expr = Rep(TokenCap + 1, <<"1">>, "+")

MaxPresses == 4      \* Up, then Down, pressed up to this many times

\* the editor after the Up key and after the Down key (calc.c:225-238)
PressUp(e) == Shown(histBack(e))
PressDown(e) == Shown(histFwd(e))

RECURSIVE Ups(_, _)
Ups(e, k) == IF k = 0 THEN e ELSE Ups(PressUp(e), k - 1)

RECURSIVE Downs(_, _)
Downs(e, k) == IF k = 0 THEN e ELSE Downs(PressDown(e), k - 1)

\* no key of k presses of Up and then k of Down reads a buffer that is not there
RECURSIVE UpsDefined(_, _)
UpsDefined(e, k) == k = 0 \/ (~histBack(e).ub /\ UpsDefined(PressUp(e), k - 1))

RECURSIVE DownsDefined(_, _)
DownsDefined(e, k) == k = 0 \/ (~histFwd(e).ub /\ DownsDefined(PressDown(e), k - 1))

\* the key loop waits for a key with lines in the history
Browsing == InKeyLoop /\ ~ed.clearInput /\ exprHistCount(ed) >= 1

AtCurrentLine(e) == e.exprHistIndex = EXPR_HIST_SIZE

\* C17: with n >= 1 lines in the history and the text T in the buffer at the
\* current-line position, k presses of Up and then k of Down leave T in the
\* buffer, the cursor at the current-line position and the history as it was;
\* Up at the oldest entry and Down at the current line change nothing; the
\* cursor designates a stored entry, whose text the buffer then shows, or the
\* current line.
C17_UpDownRoundTrip ==
    Browsing
        => /\ AtCurrentLine(ed) \/ ed.exprHistIndex < exprHistCount(ed)
           /\ ~AtCurrentLine(ed) => ed.len = ed.hist[ed.exprHistIndex + 1]
           /\ ed.exprHistIndex = 0 => PressUp(ed) = ed
           /\ AtCurrentLine(ed) => PressDown(ed) = ed
           /\ AtCurrentLine(ed)
                => \A k \in 1 .. MaxPresses :
                      /\ UpsDefined(ed, k) /\ DownsDefined(Ups(ed, k), k)
                      /\ Ups(ed, k).exprHistIndex = Max(exprHistCount(ed) - k, 0)
                      /\ Downs(Ups(ed, k), k).len = ed.len
                      /\ Downs(Ups(ed, k), k).exprIndex = ed.exprIndex
                      /\ Downs(Ups(ed, k), k).hist = ed.hist
                      /\ AtCurrentLine(Downs(Ups(ed, k), k))

\* Up and then Down were pressed on a typed character, after a line was
\* entered into a full history
C17_Witness ==
    /\ Browsing /\ AtCurrentLine(ed) /\ lines >= 1
    /\ exprHistCount(ed) = EXPR_HIST_SIZE
    /\ ed.len = 1 /\ ed.exprIndex = 1 /\ ed.cur = <<1>>


\* the characters a step of generateExpressions() appends to tempStr
Added == SubSeq(gen'.tempStr, Len(gen.tempStr) + 1, Len(gen'.tempStr))

\* a pass of the pair loop appends nothing, or an operator and an element
\* that passed the fit check with the operator left out of the count
PairStep ==
    (gen.pc = "pairs" /\ gen'.pc = "pairs")
        => /\ SubSeq(gen'.tempStr, 1, Len(gen.tempStr)) = gen.tempStr
           /\ \/ Added = <<>>
              \/ /\ Len(Added) >= 2
                 /\ <<Added[1]>> \in Operators
                 /\ Tail(Added) \in Parts(gen.randChoice)
                 /\ Len(Tail(Added)) + Len(gen.tempStr) < gen.maxLen - 1
                 /\ Len(gen'.tempStr) < gen.maxLen

\* an expression is stored as it was built, in its own block, followed by a NUL
StoreStep ==
    (gen.pc = "pairs" /\ gen'.pc \in {"first", "returned"})
        => /\ Len(gen.tempStr) < gen.maxLen
           /\ Len(gen'.outBuf) = gen.count * gen.maxLen
           /\ CStr(gen'.outBuf, gen.i * gen.maxLen) = gen.tempStr
           /\ \A x \in 0 .. gen.i - 1 :
                 CStr(gen'.outBuf, x * gen.maxLen) = CStr(gen.outBuf, x * gen.maxLen)

\* the blocks of a call that returned
Blocks == {SubSeq(gen.outBuf, x * gen.maxLen + 1, (x + 1) * gen.maxLen) : x \in 0 .. gen.count - 1}

FitsBlock(b) == \E n \in 1 .. Len(b) - 1 : \A k \in 1 .. Len(b) : (b[k] = NUL) <=> (k > n)

GenStep ==
    /\ gen'.pc # "tooLong"
    /\ PairStep
    /\ StoreStep
    /\ gen.pc = "returned" => \A b \in Blocks : FitsBlock(b)

\* C12: in every call of generateExpressions(count, maxLen, outBuf) that
\* returns, each of the count expressions is shorter than maxLen characters,
\* operators included, and lies in its own maxLen-wide block; a pass of the
\* pair loop appends an operator and an element together or nothing, and
\* appends them only when the fit check passed; the assertion of calc.c:1134
\* never fails
C12_FitsItsBlock == [][GenStep]_vars

\* a call for two expressions returned, each block filled up to its last
\* character with an expression that holds an operator
C12_Witness ==
    /\ gen.pc = "returned" /\ gen.count = 2
    /\ \A b \in Blocks :
          /\ Len(CStr(b, 0)) = gen.maxLen - 1
          /\ \E k \in 2 .. Len(b) : isOper(b[k])

Generated == gen.pc = "returned" /\ call # NoCall

\* C11: evaluate(expr, 0) on an expression that generateExpressions() produced
\* does not set the error flag, does not abort, stays within defined
\* behaviour, and whenever it is over it has returned a value
C11_GeneratedEvaluates ==
    Generated => /\ proc = "running"
                 /\ ~errorFlag
                 /\ diag = <<>>
                 /\ stack = <<>> => result # NoValue

\* the generated expression (5-(0-5)), a subexpression with a nested one,
\* was evaluated to 10
C11_Witness ==
    /\ Generated /\ Returned /\ ~errorFlag
    /\ call.expr = <<"(", "5", "-", "(", "0", "-", "5", ")", ")">>
    /\ result = Num(10)

====
